---------------------------- MODULE Spec2Model ----------------------------
(***************************************************************************)
(* Model of the chunked, bounded-concurrency synthesis-and-merge pipeline  *)
(* of TTSApp.py: start_conversion_thread, run_conversion_wrapper,          *)
(* run_conversion_concurrent_ffmpeg with its process_single_chunk tasks,   *)
(* text_to_speech_async, _cleanup_temp_files, process_queue with           *)
(* reset_ui_state and update_progress_display, on_close, and the pure      *)
(* function split_text_simple.                                             *)
(*                                                                         *)
(* Threads: the GUI thread (start_conversion_thread, process_queue,        *)
(* on_close) and the conversion thread, which runs one asyncio event loop. *)
(* Inside the loop only one coroutine runs at a time and it runs until it  *)
(* suspends, so a task is cut into steps only at its suspension points     *)
(* (semaphore wait, the network call) and at every read of self.closing,   *)
(* which the GUI thread may set between any two statements.                *)
(*                                                                         *)
(* Specifications: Spec is the application (chunk lists as                 *)
(* split_text_simple produces them); FairSpec is Spec with the scheduling  *)
(* assumptions; SpecAnyChunks runs the pipeline on any chunk list, blank   *)
(* chunks included; SplitSpec is one call of split_text_simple on any      *)
(* short text and LongSplitSpec one call on texts longer than the search   *)
(* window; DisplaySpec is process_queue handling one progress message of   *)
(* a run with any counts and durations.                                    *)
(***************************************************************************)
EXTENDS Integers, Sequences, FiniteSets, TLC

\* ------------------------------------------------------------------ bounds
MaxChunks == 2
MaxLimit == 2
\* Longest text and largest max_length handed to split_text_simple.
MaxTextLen == 5
MaxSplitLength == 4
\* Longest run of letters before, and after, the sentence mark of a long text.
MaxLead == 54
MaxTail == 2
\* Most chunks of a run and longest chunk duration shown to the progress display.
MaxShownChunks == 4
MaxShownDuration == 3

\* --------------------------------------------------------------- constants
\* Python's None in the integer-valued fields (temp path, duration).
None == -1
\* Python's None in the error-message field.
NoError == "<None>"
\* str(e) of an exception raised without a message, e.g. asyncio.TimeoutError().
EmptyMessage == ""
\* The error messages str(e) the adapter boundary can return.
ErrorMessages == {EmptyMessage, "tts error"}
\* Elapsed times time.monotonic() can measure for a real synthesis call.
Durations == {1, 2}
\* Process.returncode after process.kill() took effect.
RC_KILLED == -9
\* CI_Z_SCORE = 1.96, in hundredths.
CI_Z_SCORE_HUNDREDTHS == 196
\* The "+ 50" of the rfind range in split_text_simple.
BREAK_SEARCH_BUFFER == 50
\* The sentence-ending characters split_text_simple looks for, in its order.
Puncts == <<".", "?", "!">>
\* Characters for which str.isspace() is true.
Whitespace == {" ", "\n", "\t", "\r"}
\* Characters for which str.isupper() / str.isalpha() is true.
UpperLetters == {"A"}
Letters == UpperLetters \cup {"a"}
\* The characters the input texts are made of: a lower-case and an upper-case
\* letter, the space, the newline and two of the sentence-ending characters.
Alphabet == {"a", "A", " ", "\n", ".", "?"}

VARIABLES
    \* GUI object fields
    closing,                  \* self.closing
    window_exists,            \* the Tk root window has not been destroyed
    is_converting,            \* self.is_converting
    total_chunks,             \* self.total_chunks
    completed_chunks,         \* self.completed_chunks
    chunk_times,              \* self.chunk_times
    gui_queue,                \* self.gui_queue
    progress_var,             \* self.progress_var, a percentage as a fraction
    eta_text,                 \* self.eta_text
    \* configuration of the run
    max_concurrent_tasks,     \* MAX_CONCURRENT_TASKS
    text_chunks,              \* argument text_chunks: index -> "text" | "blank"
    \* conversion thread
    pc,                       \* position of the wrapper / pipeline coroutine
    loop_i,                   \* loop variable of the task creation / list loops
    task_pc,                  \* position of each process_single_chunk task
    semaphore,                \* value of asyncio.Semaphore
    results_data,             \* results_data
    temp_file_paths_to_clean, \* temp_file_paths_to_clean
    files,                    \* the temp file of task i on disk
    validation,               \* all_tts_chunks_succeeded, first error, valid files
    list_file,                \* the ffmpeg list file on disk
    list_content,             \* the lines written to the list file
    returncode,               \* process.returncode
    merge_was_successful,     \* merge_was_successful
    \* instrumentation (what a mock adapter / mock merge tool would record)
    tts_calls,                \* synthesis calls made per chunk index
    tts_outcome,              \* outcome of the synthesis call per chunk index
    task_skipped,             \* where a task saw the closing flag and skipped
    ffmpeg_runs,              \* number of times the merge tool was started
    ffmpeg_input,             \* the manifest the merge tool was started with
    cleanup_runs,             \* number of _cleanup_temp_files executions
    exit_path,                \* the return statement the run left through
    returned_while_closing,   \* chunks whose call returned after closing was set
    run_events,               \* every message the run has put on gui_queue
    \* a call of split_text_simple
    split_input,              \* argument text, a sequence of characters
    split_max_length,         \* argument max_length
    split_result,             \* the returned list of chunks
    split_pc                  \* "call" before the call, "done" after it

gui_vars == <<closing, window_exists, is_converting, total_chunks,
              completed_chunks, chunk_times, gui_queue, progress_var, eta_text>>
run_vars == <<max_concurrent_tasks, text_chunks, pc, loop_i, task_pc, semaphore,
              results_data, temp_file_paths_to_clean, files, validation,
              list_file, list_content, returncode, merge_was_successful>>
obs_vars == <<tts_calls, tts_outcome, task_skipped, ffmpeg_runs, ffmpeg_input,
              cleanup_runs, exit_path, returned_while_closing, run_events>>
split_vars == <<split_input, split_max_length, split_result, split_pc>>
vars == <<gui_vars, run_vars, obs_vars, split_vars>>
\* groups used in UNCHANGED
gui_state == <<closing, window_exists, is_converting, total_chunks,
               completed_chunks, chunk_times, progress_var, eta_text>>
cfg_vars == <<max_concurrent_tasks, text_chunks>>
merge_vars == <<validation, list_file, list_content, returncode,
                merge_was_successful>>
obs_vars_but_events == <<tts_calls, tts_outcome, task_skipped, ffmpeg_runs,
                         ffmpeg_input, cleanup_runs, exit_path,
                         returned_while_closing>>

\* ----------------------------------------------------------------- helpers
Range(s) == {s[k] : k \in DOMAIN s}

Min(a, b) == IF a <= b THEN a ELSE b

Max(a, b) == IF a >= b THEN a ELSE b

Indices == DOMAIN text_chunks

NumChunks == Cardinality(Indices)

\* tempfile.NamedTemporaryFile gives every task its own path.
TmpPath(i) == 100 + i

ChunkOfPath(p) == p - 100

\* A gui_queue message: (msg_type, payload).
Msg(t, k, a, b) == [type |-> t, kind |-> k, num |-> a, num2 |-> b]

ProgressUpdate(duration) == Msg("progress_update", "", duration, None)

ErrorEvent(kind, idx) == Msg("error", kind, idx, None)

SuccessEvent == Msg("success", "final_output_file", None, None)

ResetUi == Msg("reset_ui", "", None, None)

StatusMsg(text) == Msg("status", text, None, None)

ShowMergeProgress == Msg("show_merge_progress", "", None, None)

MergePrepProgress(current, total) == Msg("merge_prep_progress", "", current, total)

\* "if not self.closing: self.gui_queue.put(...)" for a list of messages.
PutUnlessClosing(msgs) ==
    /\ gui_queue' = IF closing THEN gui_queue ELSE gui_queue \o msgs
    /\ run_events' = IF closing THEN run_events ELSE run_events \o msgs

NoPut == UNCHANGED <<gui_queue, run_events>>

\* Mutant of WithResetLast: 'reset_ui' is put before the other messages.
WithResetFirst(events) == <<ResetUi>> \o events

\* The messages a run ends with: ('reset_ui', None) is put after the others
\* (lines 678-679 in the wrapper, 929-930 at the end of the pipeline).
WithResetLast(events) == events \o <<ResetUi>>

\* Python truthiness of an error message / of a path.
Truthy(msg) == msg # NoError /\ msg # EmptyMessage

TruthyPath(p) == p # None

\* _cleanup_temp_files: every listed path that exists is removed.
CleanupTempFiles(paths, fs) ==
    [i \in DOMAIN fs |-> IF TmpPath(i) \in Range(paths) THEN "absent" ELSE fs[i]]

\* Mutant of ExistsAndNonEmpty: the size of the file is not looked at.
ExistsOnly(p, fs) == fs[ChunkOfPath(p)] # "absent"

\* os.path.exists(p) and os.path.getsize(p) > 0
ExistsAndNonEmpty(p, fs) == fs[ChunkOfPath(p)] = "data"

\* --------------------------------------------------------------- validation
\* The loop over results_data (lines 777-801), from index idx upwards, with the
\* accumulator acc = [ok, first, files]: ok is all_tts_chunks_succeeded, first is
\* first_error_message_for_user (as <<kind, chunk index>>, <<>> for None) and
\* files is successful_temp_files_ordered.
RECURSIVE CollectResults(_, _, _, _)
CollectResults(idx, results, fs, acc) ==
    IF idx \notin DOMAIN results THEN acc
    ELSE LET r == results[idx]
             failed == [acc EXCEPT !.ok = FALSE,
                                   !.first = IF acc.first = <<>>
                                             THEN <<"chunk_failed", r[1]>>
                                             ELSE acc.first]
             missing == [acc EXCEPT !.ok = FALSE,
                                    !.first = IF acc.first = <<>>
                                              THEN <<"file_missing_or_empty", r[1]>>
                                              ELSE acc.first]
             good == [acc EXCEPT !.files[r[1]] = r[2]]
         IN  CollectResults(idx + 1, results, fs,
                 IF Truthy(r[3]) THEN failed
                 ELSE IF TruthyPath(r[2])
                      THEN IF ExistsAndNonEmpty(r[2], fs) THEN good ELSE missing
                      ELSE acc)

\* valid_files_to_merge = [f for f in successful_temp_files_ordered if f is not None]
RECURSIVE FilterNotNone(_, _)
FilterNotNone(ordered, idx) ==
    IF idx \notin DOMAIN ordered THEN <<>>
    ELSE (IF ordered[idx] # None THEN <<ordered[idx]>> ELSE <<>>)
         \o FilterNotNone(ordered, idx + 1)

\* Mutant of ValidFilesToMerge: the files are listed last chunk first.
ValidFilesReversed(ordered) ==
    LET fwd == FilterNotNone(ordered, 0)
    IN  [k \in 1..Len(fwd) |-> fwd[Len(fwd) + 1 - k]]

ValidFilesToMerge(ordered) == FilterNotNone(ordered, 0)

ProcessResults(results, fs) ==
    LET acc == CollectResults(0, results, fs,
                   [ok |-> TRUE, first |-> <<>>,
                    files |-> [i \in DOMAIN results |-> None]])
    IN  [all_tts_chunks_succeeded |-> acc.ok,
         first_error |-> acc.first,
         valid_files_to_merge |-> ValidFilesToMerge(acc.files)]

NoValidation ==
    [all_tts_chunks_succeeded |-> TRUE, first_error |-> <<>>,
     valid_files_to_merge |-> <<>>]

\* ------------------------------------------------- update_progress_display
\* Numbers that are not whole (the percentage, the remaining time) are kept as
\* fractions [num, den] with den > 0.
ZeroPercent == [num |-> 0, den |-> 1]

\* The value of eta_text: a fixed label, or "ETA: HH:MM:SS" with the whole
\* seconds the clock shows and, with two samples or more, the whole seconds of
\* the margin after the plus-minus sign.
EtaLabel(label) == [text |-> label, seconds |-> None, margin |-> None]

EtaClock(seconds, margin) ==
    [text |-> "ETA: HH:MM:SS", seconds |-> seconds, margin |-> margin]

RECURSIVE Sum(_)
Sum(times) == IF times = <<>> THEN 0 ELSE Head(times) + Sum(Tail(times))

RECURSIVE SumOfSquares(_)
SumOfSquares(times) ==
    IF times = <<>> THEN 0 ELSE Head(times) * Head(times) + SumOfSquares(Tail(times))

\* Mutant of EffectiveRemainingTime: the concurrency limit is left out.
SequentialRemainingTime(times, remaining_chunks, limit) ==
    [num |-> Sum(times) * remaining_chunks, den |-> Len(times)]

\* Lines 409-415: statistics.mean(chunk_times) * remaining_chunks
\* / MAX_CONCURRENT_TASKS.
EffectiveRemainingTime(times, remaining_chunks, limit) ==
    [num |-> Sum(times) * remaining_chunks, den |-> Len(times) * limit]

\* format_time_delta: hours, minutes and seconds of int(seconds), that is the
\* value cut down to whole seconds (never negative here).
FormatTimeDelta(value) == value.num \div value.den

\* math.ceil(remaining_chunks / MAX_CONCURRENT_TASKS)
EffectiveSequentialSlots(remaining_chunks, limit) ==
    (remaining_chunks + limit - 1) \div limit

\* Lines 419-427, cut down to whole seconds by format_time_delta:
\* CI_Z_SCORE * stdev(chunk_times) * sqrt(slots), stdev being the sample
\* standard deviation sqrt((n * sum of squares - sum^2) / (n * (n - 1))); the
\* whole part m of it is the largest m with
\* (100 m)^2 * n (n - 1) <= 196^2 * (n * sum of squares - sum^2) * slots.
MarginOfErrorSeconds(times, remaining_chunks, limit) ==
    LET n == Len(times)
        spread == n * SumOfSquares(times) - Sum(times) * Sum(times)
        slots == EffectiveSequentialSlots(remaining_chunks, limit)
        fits(m) == 10000 * m * m * n * (n - 1)
                       <= CI_Z_SCORE_HUNDREDTHS * CI_Z_SCORE_HUNDREDTHS * spread * slots
        top == 2 * Sum(times) * slots
    IN  CHOOSE m \in 0..top : fits(m) /\ \A k \in (m + 1)..top : ~fits(k)

\* Lines 403-436: the text of the ETA label.  conversion_start_time is set
\* together with is_converting (lines 645, 653) and cleared together with it
\* (lines 977, 989), so is_converting stands for both.
EtaStr(st) ==
    LET current_completed == Min(st.completed_chunks, st.total_chunks)
        remaining_chunks == st.total_chunks - current_completed
        n_times == Len(st.chunk_times)
    IN  IF st.is_converting /\ current_completed > 0
                            /\ current_completed < st.total_chunks
        THEN IF n_times > 0
             THEN EtaClock(
                      FormatTimeDelta(EffectiveRemainingTime(
                          st.chunk_times, remaining_chunks, max_concurrent_tasks)),
                      IF n_times > 1
                      THEN MarginOfErrorSeconds(st.chunk_times, remaining_chunks,
                                                max_concurrent_tasks)
                      ELSE None)
             ELSE EtaLabel("ETA: Calculating...")
        ELSE IF current_completed = 0 /\ st.is_converting
        THEN EtaLabel("ETA: Starting...")
        ELSE IF current_completed = st.total_chunks /\ st.is_converting
        THEN EtaLabel("ETA: Finalizing...")
        ELSE EtaLabel("ETA: Calculating...")

\* update_progress_display(self.completed_chunks, self.total_chunks) on the
\* record st of the GUI object's fields; the window exists when it is called.
UpdateProgressDisplay(st) ==
    IF st.total_chunks = 0 THEN st
    ELSE [st EXCEPT
             !.progress_var = [num |-> 100 * Min(st.completed_chunks, st.total_chunks),
                               den |-> st.total_chunks],
             !.eta_text = EtaStr(st)]

\* -------------------------------------------------------------------- Init
\* No conversion thread exists: the locals of the pipeline and the records of
\* the run are empty.
NoThread ==
    /\ text_chunks = <<>>
    /\ pc = "idle"
    /\ loop_i = 0
    /\ task_pc = <<>>
    /\ semaphore = 0
    /\ results_data = <<>>
    /\ temp_file_paths_to_clean = <<>>
    /\ files = <<>>
    /\ validation = NoValidation
    /\ list_file = "none"
    /\ list_content = <<>>
    /\ returncode = None
    /\ merge_was_successful = FALSE
    /\ tts_calls = <<>>
    /\ tts_outcome = <<>>
    /\ task_skipped = <<>>
    /\ ffmpeg_runs = 0
    /\ ffmpeg_input = <<>>
    /\ cleanup_runs = 0
    /\ exit_path = "running"
    /\ returned_while_closing = {}
    /\ run_events = <<>>

\* The GUI after __init__: no conversion is running.
IdleState ==
    /\ closing = FALSE
    /\ window_exists = TRUE
    /\ is_converting = FALSE
    /\ total_chunks = 0
    /\ completed_chunks = 0
    /\ chunk_times = <<>>
    /\ gui_queue = <<>>
    /\ progress_var = ZeroPercent
    /\ eta_text = EtaLabel("ETA: Calculating...")
    /\ max_concurrent_tasks \in 1..MaxLimit
    /\ NoThread

\* No call of split_text_simple is followed.
Init ==
    /\ IdleState
    /\ split_input = <<>>
    /\ split_max_length = 1
    /\ split_result = <<>>
    /\ split_pc = "done"

\* -------------------------------------------------------- split_text_simple
\* Texts are sequences of one-character strings; Python's 0-based positions
\* are kept, CharAt(s, k) being s[k] and Slice(s, a, b) being s[a:b].
CharAt(s, k) == s[k + 1]

\* Mutant of Slice: the slice stops one character early.
SliceOneShort(s, a, b) == SubSeq(s, a + 1, Min(b, Len(s)) - 1)

Slice(s, a, b) == SubSeq(s, a + 1, Min(b, Len(s)))

\* Mutant of IsSpace: the lower-case letters count as whitespace too.
IsSpaceOrLower(c) == c \in Whitespace \cup (Letters \ UpperLetters)

IsSpace(c) == c \in Whitespace

\* str.strip(): leading and trailing whitespace removed.
RECURSIVE LStrip(_)
LStrip(s) == IF s # <<>> /\ IsSpace(Head(s)) THEN LStrip(Tail(s)) ELSE s

RECURSIVE RStrip(_)
RStrip(s) ==
    IF s # <<>> /\ IsSpace(s[Len(s)]) THEN RStrip(SubSeq(s, 1, Len(s) - 1)) ELSE s

\* Mutant of Strip: only the leading whitespace is removed.
StripLeftOnly(s) == LStrip(s)

Strip(s) == RStrip(LStrip(s))

\* text.split('\n\n'): the pieces between the occurrences of two newlines
\* in a row, found from the left; cur is the piece being read.
RECURSIVE SplitParagraphs(_, _)
SplitParagraphs(s, cur) ==
    IF s = <<>> THEN <<cur>>
    ELSE IF Len(s) >= 2 /\ s[1] = "\n" /\ s[2] = "\n"
         THEN <<cur>> \o SplitParagraphs(SubSeq(s, 3, Len(s)), <<>>)
         ELSE SplitParagraphs(Tail(s), Append(cur, Head(s)))

\* paragraph.rfind(punct, start, stop): the highest position in start..stop-1
\* that holds punct, or -1.
RFind(paragraph, punct, start, stop) ==
    LET hits == {k \in start..(stop - 1) : CharAt(paragraph, k) = punct}
    IN  IF hits = {} THEN -1 ELSE CHOOSE k \in hits : \A h \in hits : h <= k

\* Mutant of IsSentenceEnd: a punct at the end of the paragraph does not count.
FollowedByWhitespace(paragraph, k) ==
    k + 1 < Len(paragraph) /\ IsSpace(CharAt(paragraph, k + 1))

\* Lines 162-163: the character at position k is followed by whitespace or is
\* the last one of the paragraph.
IsSentenceEnd(paragraph, k) ==
    \/ k + 1 = Len(paragraph)
    \/ k + 1 < Len(paragraph) /\ IsSpace(CharAt(paragraph, k + 1))

\* Line 167, the abbreviation heuristic: more than two characters after start,
\* and the two characters before position k are letters, the first of them
\* upper-case.
LooksLikeAbbreviation(paragraph, k, start) ==
    /\ k > start + 2
    /\ CharAt(paragraph, k - 2) \in Letters
    /\ CharAt(paragraph, k - 1) \in Letters
    /\ CharAt(paragraph, k - 2) \in UpperLetters

\* Mutant of SearchStop: the search goes on to the end of the paragraph.
SearchToEnd(end, length) == length

\* Line 159, the upper limit of the search: min(end + 50, len(paragraph)).
SearchStop(end, length) == Min(end + BREAK_SEARCH_BUFFER, length)

\* Lines 159-171 for one punct: the position rfind gives if it passes the
\* tests (after start, a sentence end, not taken for an abbreviation), else -1.
BreakCandidate(paragraph, punct, start, end) ==
    LET p_break == RFind(paragraph, punct, start, SearchStop(end, Len(paragraph)))
    IN  IF /\ p_break # -1 /\ p_break > start
           /\ IsSentenceEnd(paragraph, p_break)
           /\ ~LooksLikeAbbreviation(paragraph, p_break, start)
        THEN p_break ELSE -1

\* The loop "for punct in ['.', '?', '!']" with best_break = max(...).
RECURSIVE BestBreak(_, _, _, _)
BestBreak(paragraph, start, end, n) ==
    IF n = 0 THEN -1
    ELSE Max(BestBreak(paragraph, start, end, n - 1),
             BreakCandidate(paragraph, Puncts[n], start, end))

\* Mutant of CutWithoutBreak: the cut falls one character short of max_length.
CutOneShort(start, max_length, length) ==
    IF start + max_length - 1 >= length THEN length ELSE start + max_length - 1

\* Mutant of CutWithoutBreak: without a sentence break the rest of the
\* paragraph is taken whole.
CutToEnd(start, max_length, length) == length

\* Lines 152 and 175-176 when best_break is -1: max_length characters after
\* start, or the end of the paragraph if that comes first.
CutWithoutBreak(start, max_length, length) ==
    IF start + max_length >= length THEN length ELSE start + max_length

\* Lines 152-176: the value of end when the chunk is sliced at line 180.
CutEnd(paragraph, start, max_length) ==
    LET best_break == BestBreak(paragraph, start, start + max_length, Len(Puncts))
    IN  IF best_break # -1 THEN best_break + 1
        ELSE CutWithoutBreak(start, max_length, Len(paragraph))

\* The while loop of lines 151-182 over a paragraph longer than max_length,
\* from position start on: the chunks it appends.
RECURSIVE SplitLongParagraph(_, _, _)
SplitLongParagraph(paragraph, start, max_length) ==
    IF start >= Len(paragraph) THEN <<>>
    ELSE LET end == CutEnd(paragraph, start, max_length)
             chunk == Strip(Slice(paragraph, start, end))
         IN  (IF chunk # <<>> THEN <<chunk>> ELSE <<>>)
             \o SplitLongParagraph(paragraph, end, max_length)

\* Mutant of FitsInOneChunk: a paragraph of exactly max_length characters is
\* sent through the sentence loop.
FitsBelowLimit(paragraph, max_length) == Len(paragraph) < max_length

\* Line 147: len(paragraph) <= max_length.
FitsInOneChunk(paragraph, max_length) == Len(paragraph) <= max_length

\* The loop over the paragraphs (lines 144-182), from paragraph n on.
RECURSIVE ChunksOfParagraphs(_, _, _)
ChunksOfParagraphs(paragraphs, n, max_length) ==
    IF n > Len(paragraphs) THEN <<>>
    ELSE LET paragraph == Strip(paragraphs[n])
         IN  (IF paragraph = <<>> THEN <<>>
              ELSE IF FitsInOneChunk(paragraph, max_length) THEN <<paragraph>>
              ELSE SplitLongParagraph(paragraph, 0, max_length))
             \o ChunksOfParagraphs(paragraphs, n + 1, max_length)

split_text_simple(text, max_length) ==
    IF text = <<>> THEN <<>>
    ELSE LET chunks == ChunksOfParagraphs(SplitParagraphs(text, <<>>), 1, max_length)
             final_chunks == SelectSeq(chunks, LAMBDA chunk : chunk # <<>>)
         IN  IF final_chunks = <<>> /\ Strip(text) # <<>>
             THEN <<Strip(text)>>
             ELSE final_chunks

\* The texts of at most MaxTextLen characters.
Texts == UNION {[1..n -> Alphabet] : n \in 0..MaxTextLen}

\* Before a call split_text_simple(text, max_length) with any text and any
\* max_length of 1..MaxSplitLength; the GUI is idle.
SplitInit ==
    /\ IdleState
    /\ max_concurrent_tasks = 1
    /\ split_input \in Texts
    /\ split_max_length \in 1..MaxSplitLength
    /\ split_result = <<>>
    /\ split_pc = "call"

\* The call returns its list of chunks.
SplitTextSimple ==
    /\ split_pc = "call"
    /\ split_result' = split_text_simple(split_input, split_max_length)
    /\ split_pc' = "done"
    /\ UNCHANGED <<split_input, split_max_length, gui_vars, run_vars, obs_vars>>

SplitNext == SplitTextSimple

SplitSpec == SplitInit /\ [][SplitNext]_vars

\* n times the letter "a".
LetterRun(n) == [k \in 1..n |-> "a"]

\* Texts longer than the search window: a run of letters, a sentence mark or
\* none, and a few letters more.
LongTexts ==
    {LetterRun(lead) \o mark \o LetterRun(tail) :
        lead \in 0..MaxLead,
        mark \in {<<>>, <<".">>, <<".", " ">>, <<"?", " ">>},
        tail \in 0..MaxTail}

\* Before a call split_text_simple(text, max_length) with one of these texts.
LongSplitInit ==
    /\ IdleState
    /\ max_concurrent_tasks = 1
    /\ split_input \in LongTexts
    /\ split_max_length \in 1..MaxSplitLength
    /\ split_result = <<>>
    /\ split_pc = "call"

LongSplitSpec == LongSplitInit /\ [][SplitNext]_vars

\* ---------------------------------------------------------------- GUI thread
\* The chunk lists split_text_simple can hand to a run: 1..MaxChunks chunks,
\* none of them empty or whitespace-only.
ChunkLists == {[i \in 0..(n - 1) |-> "text"] : n \in 1..MaxChunks}

\* Mutant of MayStart: a run may start while another is converting.
MayStartWhileConverting(converting, closing_flag) == ~closing_flag

\* Line 582: "if self.is_converting or self.closing: return".
MayStart(converting, closing_flag) == ~converting /\ ~closing_flag

\* start_conversion_thread: returns at once while a run is active or the
\* application is closing; otherwise resets the run state and starts the
\* conversion thread.  The locals of the pipeline do not exist before the
\* thread creates them: they are put back to their initial values here.
\* lists is the set of chunk lists the run can be given.
StartRun(lists) ==
    /\ MayStart(is_converting, closing)
    /\ \E chunks \in lists :
          /\ text_chunks' = chunks
          /\ total_chunks' = Cardinality(DOMAIN chunks)
          /\ files' = [i \in DOMAIN chunks |-> "absent"]
          /\ task_pc' = [i \in DOMAIN chunks |-> "none"]
          /\ tts_calls' = [i \in DOMAIN chunks |-> 0]
          /\ tts_outcome' = [i \in DOMAIN chunks |-> "none"]
          /\ task_skipped' = [i \in DOMAIN chunks |-> "no"]
    /\ completed_chunks' = 0
    /\ chunk_times' = <<>>
    /\ is_converting' = TRUE
    /\ progress_var' = ZeroPercent
    /\ eta_text' = EtaLabel("ETA: Starting...")
    /\ pc' = "wrapper"
    /\ loop_i' = 0
    /\ semaphore' = 0
    /\ results_data' = <<>>
    /\ temp_file_paths_to_clean' = <<>>
    /\ validation' = NoValidation
    /\ list_file' = "none"
    /\ list_content' = <<>>
    /\ returncode' = None
    /\ merge_was_successful' = FALSE
    /\ ffmpeg_runs' = 0
    /\ ffmpeg_input' = <<>>
    /\ cleanup_runs' = 0
    /\ exit_path' = "running"
    /\ returned_while_closing' = {}
    /\ run_events' = <<>>
    /\ UNCHANGED <<split_vars, closing, window_exists, gui_queue, max_concurrent_tasks>>

StartConversion == StartRun(ChunkLists)

\* Any list of 1..MaxChunks chunks, empty and whitespace-only chunks ("blank")
\* included: what run_conversion_concurrent_ffmpeg and process_single_chunk
\* accept as their argument.
AnyChunkLists ==
    UNION {[0..(n - 1) -> {"text", "blank"}] : n \in 1..MaxChunks}

\* A run of the pipeline on any chunk list.
StartConversionAnyChunks == StartRun(AnyChunkLists)

\* on_close: sets the closing flag and destroys the window.
OnClose ==
    /\ ~closing
    /\ closing' = TRUE
    /\ window_exists' = FALSE
    /\ UNCHANGED <<split_vars, is_converting, total_chunks, completed_chunks,
                   chunk_times, gui_queue, progress_var, eta_text, run_vars,
                   obs_vars>>

\* Mutant of HandleProgressUpdate: the payload is kept whatever it is.
KeepEveryDuration(st, duration) ==
    UpdateProgressDisplay(
        [st EXCEPT !.completed_chunks = @ + 1, !.chunk_times = Append(@, duration)])

\* Mutant of HandleProgressUpdate: a chunk without a kept duration is not counted.
CountTimedChunksOnly(st, duration) ==
    UpdateProgressDisplay(
        IF duration # None /\ duration > 0
        THEN [st EXCEPT !.completed_chunks = @ + 1, !.chunk_times = Append(@, duration)]
        ELSE st)

\* 'progress_update' in process_queue (lines 338-343): the chunk is counted, a
\* duration that is not None and positive is kept, the display is updated.
HandleProgressUpdate(st, duration) ==
    UpdateProgressDisplay(
        [st EXCEPT !.completed_chunks = @ + 1,
                   !.chunk_times = IF duration # None /\ duration > 0
                                   THEN Append(@, duration) ELSE @])

\* Mutant of HandleMessage: 'reset_ui' is not handled (is_converting stays set).
HandleMessageWithoutReset(st, m) ==
    IF m.type = "progress_update" THEN HandleProgressUpdate(st, m.num) ELSE st

\* What process_queue does with one message on the fields of the GUI object, st
\* being the record of those fields: 'progress_update' counts the chunk;
\* 'reset_ui' is reset_ui_state; the other messages change widgets that are
\* not followed here.
HandleMessage(st, m) ==
    IF m.type = "progress_update" THEN HandleProgressUpdate(st, m.num)
    ELSE IF m.type = "reset_ui"
    THEN [is_converting |-> FALSE, total_chunks |-> 0,
          completed_chunks |-> 0, chunk_times |-> <<>>,
          progress_var |-> ZeroPercent, eta_text |-> EtaLabel("ETA: --:--:--")]
    ELSE st

\* The "while True: get_nowait()" loop over the messages in the queue.
RECURSIVE DrainQueue(_, _)
DrainQueue(st, q) ==
    IF q = <<>> THEN st ELSE DrainQueue(HandleMessage(st, Head(q)), Tail(q))

\* process_queue, the GUI timer callback: returns at once when closing,
\* otherwise handles every message in the queue and re-arms the timer.
ProcessQueue ==
    /\ ~closing
    /\ gui_queue # <<>>
    /\ LET st == DrainQueue([is_converting |-> is_converting,
                             total_chunks |-> total_chunks,
                             completed_chunks |-> completed_chunks,
                             chunk_times |-> chunk_times,
                             progress_var |-> progress_var,
                             eta_text |-> eta_text], gui_queue)
       IN  /\ is_converting' = st.is_converting
           /\ total_chunks' = st.total_chunks
           /\ completed_chunks' = st.completed_chunks
           /\ chunk_times' = st.chunk_times
           /\ progress_var' = st.progress_var
           /\ eta_text' = st.eta_text
    /\ gui_queue' = <<>>
    /\ UNCHANGED <<split_vars, closing, window_exists, run_vars, obs_vars>>

\* The sequences of at most n durations of 1..MaxShownDuration.
DurationLists(n) == UNION {[1..k -> 1..MaxShownDuration] : k \in 0..n}

\* The GUI in the middle of a run of 1..MaxShownChunks chunks, with one
\* 'progress_update' message in the queue: some chunks are counted already,
\* some of them with a duration kept, the display shows their state, and the
\* message carries a duration or None.
DisplayInit ==
    /\ closing = FALSE
    /\ window_exists = TRUE
    /\ is_converting = TRUE
    /\ max_concurrent_tasks \in 1..MaxLimit
    /\ total_chunks \in 1..MaxShownChunks
    /\ completed_chunks \in 0..(total_chunks - 1)
    /\ chunk_times \in DurationLists(completed_chunks)
    /\ \E shown \in {UpdateProgressDisplay(
                         [is_converting |-> TRUE, total_chunks |-> total_chunks,
                          completed_chunks |-> completed_chunks,
                          chunk_times |-> chunk_times,
                          progress_var |-> ZeroPercent,
                          eta_text |-> EtaLabel("ETA: Starting...")])} :
           /\ progress_var = shown.progress_var
           /\ eta_text = shown.eta_text
    /\ \E duration \in (1..MaxShownDuration) \cup {None} :
           gui_queue = <<ProgressUpdate(duration)>>
    /\ NoThread
    /\ split_input = <<>>
    /\ split_max_length = 1
    /\ split_result = <<>>
    /\ split_pc = "done"

\* process_queue handles the message and updates the display.
DisplayNext == ProcessQueue

DisplaySpec == DisplayInit /\ [][DisplayNext]_vars

\* ------------------------------------------------- conversion thread: entry
\* run_conversion_wrapper up to the call of the pipeline (line 673).
RunConversionWrapper ==
    /\ pc = "wrapper"
    /\ IF closing
       THEN pc' = "exited" /\ exit_path' = "wrapper_closing"
       ELSE pc' = "entry" /\ UNCHANGED exit_path
    /\ UNCHANGED <<split_vars,
                   gui_vars, max_concurrent_tasks, text_chunks, loop_i, task_pc,
                   semaphore, results_data, temp_file_paths_to_clean, files,
                   validation, list_file, list_content, returncode,
                   merge_was_successful, tts_calls, tts_outcome, task_skipped,
                   ffmpeg_runs, ffmpeg_input, cleanup_runs, run_events,
                   returned_while_closing>>

\* run_conversion_concurrent_ffmpeg, lines 690-697: the closing check, then the
\* semaphore, the pre-sized results_data and the empty cleanup list.
PipelineEntry ==
    /\ pc = "entry"
    /\ IF closing
       THEN /\ pc' = "exited" /\ exit_path' = "entry_closing"
            /\ UNCHANGED <<semaphore, results_data, temp_file_paths_to_clean, loop_i>>
       ELSE /\ semaphore' = max_concurrent_tasks
            /\ results_data' = [i \in Indices |-> <<i, None, NoError, None>>]
            /\ temp_file_paths_to_clean' = <<>>
            /\ loop_i' = 0
            /\ pc' = "create_tasks"
            /\ UNCHANGED exit_path
    /\ UNCHANGED <<split_vars,
                   gui_vars, max_concurrent_tasks, text_chunks, task_pc, files,
                   validation, list_file, list_content, returncode,
                   merge_was_successful, tts_calls, tts_outcome, task_skipped,
                   ffmpeg_runs, ffmpeg_input, cleanup_runs, run_events,
                   returned_while_closing>>

\* One iteration of the loop of lines 743-745: break when closing, else
\* create_task (the task does not run before the coroutine awaits).
CreateTask ==
    /\ pc = "create_tasks"
    /\ IF closing
       THEN /\ pc' = "tasks_created"
            /\ UNCHANGED <<task_pc, loop_i>>
       ELSE /\ task_pc' = [task_pc EXCEPT ![loop_i] = "created"]
            /\ loop_i' = loop_i + 1
            /\ pc' = IF loop_i + 1 = NumChunks THEN "tasks_created" ELSE "create_tasks"
    /\ UNCHANGED <<split_vars, gui_vars, max_concurrent_tasks, text_chunks, semaphore,
                   results_data, temp_file_paths_to_clean, files, validation,
                   list_file, list_content, returncode, merge_was_successful,
                   obs_vars>>

\* Lines 747-759: when closing, cancel the created tasks (none has started),
\* clean up and return; else go on to await asyncio.gather.
AfterCreateTasks ==
    /\ pc = "tasks_created"
    /\ IF closing
       THEN /\ task_pc' = [i \in Indices |->
                              IF task_pc[i] = "created" THEN "cancelled" ELSE task_pc[i]]
            /\ files' = CleanupTempFiles(temp_file_paths_to_clean, files)
            /\ cleanup_runs' = cleanup_runs + 1
            /\ pc' = "exited" /\ exit_path' = "closing_after_create"
       ELSE /\ pc' = "gather"
            /\ UNCHANGED <<task_pc, files, cleanup_runs, exit_path>>
    /\ UNCHANGED <<split_vars,
                   gui_vars, max_concurrent_tasks, text_chunks, loop_i, semaphore,
                   results_data, temp_file_paths_to_clean, validation, list_file,
                   list_content, returncode, merge_was_successful, tts_calls,
                   tts_outcome, task_skipped, ffmpeg_runs, ffmpeg_input, run_events,
                   returned_while_closing>>

\* ------------------------------------------------ process_single_chunk tasks
\* Positions at which a task is running (it holds the event loop), as opposed
\* to suspended in an await.
RunningPositions == {"tempfile_failed", "acquired", "returned"}

\* The event loop is free: no task is between two of its steps.
LoopFree == \A j \in Indices : task_pc[j] \notin RunningPositions

\* Mutant of SemaphoreLocked: the acquire never waits.
SemaphoreNeverLocked(value) == FALSE

\* asyncio.Semaphore.locked()
SemaphoreLocked(value) == value <= 0

\* Mutant of AfterTts: a failed call is tried again.
RetryAfterFailure(success) == IF success THEN "returned" ELSE "acquired"

\* Where a task goes when text_to_speech_async has returned: always on to
\* storing the result and reporting progress (there is no retry).
AfterTts(success) == "returned"

\* Mutant of CancelledAfterAcquire: the second closing check is missing.
NoCheckAfterAcquire(flag) == FALSE

\* Whether the task gives up after acquiring the semaphore (lines 716-718).
CancelledAfterAcquire(flag) == flag

\* list.remove(x): the list without the first occurrence of x.
RemoveFirst(paths, x) ==
    LET k == CHOOSE k \in DOMAIN paths :
                 paths[k] = x /\ \A j \in 1..(k - 1) : paths[j] # x
    IN  SubSeq(paths, 1, k - 1) \o SubSeq(paths, k + 1, Len(paths))

\* Mutant of RemoveIfRegistered: the handler drops the path registered last.
RemoveLastRegistered(paths, temp_path) ==
    IF paths = <<>> THEN paths ELSE SubSeq(paths, 1, Len(paths) - 1)

\* Line 733 in the exception handler: "if temp_path and temp_path in
\* temp_file_paths_to_clean: temp_file_paths_to_clean.remove(temp_path)".
RemoveIfRegistered(paths, temp_path) ==
    IF TruthyPath(temp_path) /\ temp_path \in Range(paths)
    THEN RemoveFirst(paths, temp_path)
    ELSE paths

\* Mutant of SlotOf: every task stores its result in the first slot.
SlotOfFirst(index) == 0

\* The slot of results_data a task writes: results_data[index] (lines 717, 721, 731).
SlotOf(index) == index

\* Mutant of Release: the slot is not given back.
ReleaseLost(value) == value

\* asyncio.Semaphore.release(), called on leaving "async with semaphore".
Release(value) == value + 1

\* Mutant of RegisterTempFile: the path is not put on the cleanup list.
RegisterNothing(paths, temp_path) == paths

\* Line 713: temp_file_paths_to_clean.append(temp_path).
RegisterTempFile(paths, temp_path) == Append(paths, temp_path)

\* Lines 702-715: the first closing check, the temp file, its registration, and
\* the semaphore acquire, which succeeds at once or suspends the task.  Tasks
\* start in creation order.  An exception of NamedTemporaryFile is caught at
\* line 728: the error is recorded in the task's slot and the handler takes
\* temp_path, still None, off the cleanup list if it is there (line 733).
TaskStart(i) ==
    /\ pc = "gather" /\ LoopFree
    /\ task_pc[i] = "created"
    /\ \A j \in Indices : j < i => task_pc[j] # "created"
    /\ IF closing
       THEN /\ task_pc' = [task_pc EXCEPT ![i] = "done"]
            /\ task_skipped' = [task_skipped EXCEPT ![i] = "before_start"]
            /\ UNCHANGED <<files, temp_file_paths_to_clean, semaphore, results_data>>
       ELSE \E created \in BOOLEAN :
              IF created
              THEN /\ files' = [files EXCEPT ![i] = "empty"]
                   /\ temp_file_paths_to_clean' =
                          RegisterTempFile(temp_file_paths_to_clean, TmpPath(i))
                   /\ IF SemaphoreLocked(semaphore)
                      THEN /\ task_pc' = [task_pc EXCEPT ![i] = "waiting"]
                           /\ UNCHANGED semaphore
                      ELSE /\ task_pc' = [task_pc EXCEPT ![i] = "acquired"]
                           /\ semaphore' = semaphore - 1
                   /\ UNCHANGED <<results_data, task_skipped>>
              ELSE /\ results_data' =
                          [results_data EXCEPT ![SlotOf(i)] = <<i, None, "tempfile error", None>>]
                   /\ temp_file_paths_to_clean' =
                          RemoveIfRegistered(temp_file_paths_to_clean, None)
                   /\ task_pc' = [task_pc EXCEPT ![i] = "tempfile_failed"]
                   /\ UNCHANGED <<files, semaphore, task_skipped>>
    /\ NoPut
    /\ UNCHANGED <<split_vars, gui_state, max_concurrent_tasks, text_chunks,
                   pc, loop_i, validation, list_file, list_content, returncode,
                   merge_was_successful, tts_calls, tts_outcome, ffmpeg_runs,
                   ffmpeg_input, cleanup_runs, exit_path,
                   returned_while_closing>>

\* Lines 738-740: the exception handler still signals progress, without duration.
TaskTempfileFailed(i) ==
    /\ pc = "gather"
    /\ task_pc[i] = "tempfile_failed"
    /\ PutUnlessClosing(<<ProgressUpdate(None)>>)
    /\ task_pc' = [task_pc EXCEPT ![i] = "done"]
    /\ UNCHANGED <<split_vars, gui_state, cfg_vars, pc, loop_i, semaphore, results_data,
                   temp_file_paths_to_clean, files, merge_vars, tts_calls,
                   tts_outcome, task_skipped, ffmpeg_runs, ffmpeg_input,
                   cleanup_runs, exit_path,
                   returned_while_closing>>

\* A suspended acquire completes once the semaphore has a free slot.
SemaphoreWake(i) ==
    /\ pc = "gather" /\ LoopFree
    /\ task_pc[i] = "waiting"
    /\ ~SemaphoreLocked(semaphore)
    /\ semaphore' = semaphore - 1
    /\ task_pc' = [task_pc EXCEPT ![i] = "acquired"]
    /\ NoPut
    /\ UNCHANGED <<split_vars, gui_state, cfg_vars, pc, loop_i, results_data,
                   temp_file_paths_to_clean, files, merge_vars, tts_calls,
                   tts_outcome, task_skipped, ffmpeg_runs, ffmpeg_input,
                   cleanup_runs, exit_path,
                   returned_while_closing>>

\* Lines 716-720 holding the semaphore: the second closing check records the
\* cancellation and releases the slot; otherwise text_to_speech_async is called.
\* For an empty or whitespace-only text it returns (True, None, 0.0) at once
\* (lines 117-118) and line 721 stores the temp path, success being True; for
\* any other text the synthesis call is made and the task suspends in it.
TaskAfterAcquire(i) ==
    /\ pc = "gather"
    /\ task_pc[i] = "acquired"
    /\ IF CancelledAfterAcquire(closing)
       THEN /\ results_data' = [results_data EXCEPT
                   ![SlotOf(i)] = <<i, None, "Cancelled during semaphore wait", None>>]
            /\ semaphore' = Release(semaphore)
            /\ task_pc' = [task_pc EXCEPT ![i] = "done"]
            /\ task_skipped' = [task_skipped EXCEPT ![i] = "after_acquire"]
            /\ UNCHANGED tts_calls
       ELSE IF text_chunks[i] = "blank"
            THEN /\ results_data' = [results_data EXCEPT
                        ![SlotOf(i)] = <<i, TmpPath(i), NoError, 0>>]
                 /\ task_pc' = [task_pc EXCEPT ![i] = "returned"]
                 /\ UNCHANGED <<semaphore, task_skipped, tts_calls>>
            ELSE /\ tts_calls' = [tts_calls EXCEPT ![i] = @ + 1]
                 /\ task_pc' = [task_pc EXCEPT ![i] = "in_call"]
                 /\ UNCHANGED <<semaphore, task_skipped, results_data>>
    /\ NoPut
    /\ UNCHANGED <<split_vars, gui_state, cfg_vars, pc, loop_i, temp_file_paths_to_clean,
                   files, merge_vars, tts_outcome, ffmpeg_runs, ffmpeg_input,
                   cleanup_runs, exit_path,
                   returned_while_closing>>

\* The synthesis call succeeds (lines 121-125): a positive duration; the audio
\* written to the temp file is normally non-empty, but the file may be found
\* empty or missing afterwards.  Line 721 stores (index, temp_path, None, duration).
TtsSucceeds(i) ==
    /\ pc = "gather" /\ LoopFree
    /\ task_pc[i] = "in_call"
    /\ \E duration \in Durations, f \in {"data", "empty", "absent"} :
          /\ files' = [files EXCEPT ![i] = f]
          /\ results_data' = [results_data EXCEPT
                 ![SlotOf(i)] = <<i, TmpPath(i), NoError, duration>>]
    /\ tts_outcome' = [tts_outcome EXCEPT ![i] = "succeeded"]
    /\ task_pc' = [task_pc EXCEPT ![i] = AfterTts(TRUE)]
    /\ returned_while_closing' =
           IF closing THEN returned_while_closing \cup {i} ELSE returned_while_closing
    /\ NoPut
    /\ UNCHANGED <<split_vars, gui_state, cfg_vars, pc, loop_i, semaphore,
                   temp_file_paths_to_clean, merge_vars, tts_calls, task_skipped,
                   ffmpeg_runs, ffmpeg_input, cleanup_runs, exit_path>>

\* The synthesis call raises (lines 126-131): text_to_speech_async returns
\* (False, str(e), None) and line 721 stores (index, None, str(e), None).
TtsFails(i) ==
    /\ pc = "gather" /\ LoopFree
    /\ task_pc[i] = "in_call"
    /\ \E message \in ErrorMessages :
          results_data' = [results_data EXCEPT ![SlotOf(i)] = <<i, None, message, None>>]
    /\ tts_outcome' = [tts_outcome EXCEPT ![i] = "failed"]
    /\ task_pc' = [task_pc EXCEPT ![i] = AfterTts(FALSE)]
    /\ returned_while_closing' =
           IF closing THEN returned_while_closing \cup {i} ELSE returned_while_closing
    /\ NoPut
    /\ UNCHANGED <<split_vars, gui_state, cfg_vars, pc, loop_i, semaphore,
                   temp_file_paths_to_clean, files, merge_vars, tts_calls,
                   task_skipped, ffmpeg_runs, ffmpeg_input, cleanup_runs, exit_path>>

\* Lines 723-726: the progress message with the stored duration, then the
\* semaphore is released on leaving "async with".
TaskFinish(i) ==
    /\ pc = "gather"
    /\ task_pc[i] = "returned"
    /\ PutUnlessClosing(<<ProgressUpdate(results_data[i][4])>>)
    /\ semaphore' = Release(semaphore)
    /\ task_pc' = [task_pc EXCEPT ![i] = "done"]
    /\ UNCHANGED <<split_vars, gui_state, cfg_vars, pc, loop_i, results_data,
                   temp_file_paths_to_clean, files, merge_vars, tts_calls,
                   tts_outcome, task_skipped, ffmpeg_runs, ffmpeg_input,
                   cleanup_runs, exit_path,
                   returned_while_closing>>

\* ------------------------------------------- pipeline: after asyncio.gather
\* Mutant of GatherComplete: gather returns as soon as one call has failed.
GatherUntilFirstFailure ==
    \/ \A i \in Indices : task_pc[i] = "done"
    \/ \E i \in Indices : task_pc[i] = "done" /\ tts_outcome[i] = "failed"

\* asyncio.gather(*tasks, return_exceptions=False) returns when every task has
\* finished: no task raises, process_single_chunk catches its exceptions.
GatherComplete == \A i \in Indices : task_pc[i] = "done"

\* Lines 764-804: gather returns; when closing, clean up and return; else the
\* results are collected and checked.
GatherDone ==
    /\ pc = "gather"
    /\ GatherComplete
    /\ IF closing
       THEN /\ files' = CleanupTempFiles(temp_file_paths_to_clean, files)
            /\ cleanup_runs' = cleanup_runs + 1
            /\ pc' = "exited" /\ exit_path' = "closing_after_gather"
            /\ UNCHANGED validation
       ELSE /\ validation' = ProcessResults(results_data, files)
            /\ pc' = "validated"
            /\ UNCHANGED <<files, cleanup_runs, exit_path>>
    /\ NoPut
    /\ UNCHANGED <<split_vars,
                   gui_state, cfg_vars, loop_i, task_pc, semaphore, results_data,
                   temp_file_paths_to_clean, list_file, list_content, returncode,
                   merge_was_successful, tts_calls, tts_outcome, task_skipped,
                   ffmpeg_runs, ffmpeg_input,
                   returned_while_closing>>

\* Line 785 inside the loop over results_data, reached with closing read as
\* false at line 766: os.path.exists(path) is true and the file is gone when
\* os.path.getsize(path) looks at it, which raises FileNotFoundError; the loop
\* has no handler, so the exception leaves the pipeline.
ValidationRaises ==
    /\ pc = "gather"
    /\ GatherComplete
    /\ ~closing
    /\ \E i \in Indices :
          /\ ~Truthy(results_data[i][3])
          /\ TruthyPath(results_data[i][2])
          /\ files[i] # "absent"
          /\ files' = [files EXCEPT ![i] = "absent"]
    /\ pc' = "wrapper_except"
    /\ NoPut
    /\ UNCHANGED <<split_vars,
                   gui_state, cfg_vars, loop_i, task_pc, semaphore, results_data,
                   temp_file_paths_to_clean, merge_vars, tts_calls, tts_outcome,
                   task_skipped, ffmpeg_runs, ffmpeg_input, cleanup_runs,
                   exit_path, returned_while_closing>>

\* The three-way branch of lines 808, 915 and 918 with its closing checks.
DecideMerge ==
    /\ pc = "validated"
    /\ IF validation.all_tts_chunks_succeeded /\ validation.valid_files_to_merge # <<>>
       THEN /\ pc' = IF closing THEN "create_list_file" ELSE "winfo_exists"
            /\ NoPut
       ELSE IF validation.all_tts_chunks_succeeded
            THEN /\ PutUnlessClosing(<<ErrorEvent("no_audio_generated", None)>>)
                 /\ pc' = "final_cleanup"
            ELSE /\ PutUnlessClosing(<<ErrorEvent(validation.first_error[1],
                                                  validation.first_error[2])>>)
                 /\ pc' = "final_cleanup"
    /\ UNCHANGED <<split_vars,
                   gui_state, cfg_vars, loop_i, task_pc, semaphore, results_data,
                   temp_file_paths_to_clean, files, merge_vars, tts_calls,
                   tts_outcome, task_skipped, ffmpeg_runs, ffmpeg_input,
                   cleanup_runs, exit_path,
                   returned_while_closing>>

\* Lines 822-824, reached with closing read as false at line 809:
\* self.root.winfo_exists() raises TclError once the window is destroyed, and
\* nothing in the pipeline catches it here.
AnnounceMerge ==
    /\ pc = "winfo_exists"
    /\ IF window_exists
       THEN /\ gui_queue' = gui_queue \o <<ShowMergeProgress, StatusMsg("preparing")>>
            /\ run_events' = run_events \o <<ShowMergeProgress, StatusMsg("preparing")>>
            /\ pc' = "create_list_file"
       ELSE /\ pc' = "wrapper_except"
            /\ NoPut
    /\ UNCHANGED <<split_vars,
                   gui_state, cfg_vars, loop_i, task_pc, semaphore, results_data,
                   temp_file_paths_to_clean, files, merge_vars, tts_calls,
                   tts_outcome, task_skipped, ffmpeg_runs, ffmpeg_input,
                   cleanup_runs, exit_path,
                   returned_while_closing>>

\* Lines 826-831: the list file is created, or NamedTemporaryFile raises and
\* list_file_path stays None.
CreateListFile ==
    /\ pc = "create_list_file"
    /\ \E created \in BOOLEAN :
          IF created
          THEN /\ list_file' = "exists"
               /\ list_content' = <<>>
               /\ loop_i' = 0
               /\ pc' = "write_list"
          ELSE /\ pc' = "merge_except"
               /\ UNCHANGED <<list_file, list_content, loop_i>>
    /\ NoPut
    /\ UNCHANGED <<split_vars, gui_state, cfg_vars, task_pc, semaphore, results_data,
                   temp_file_paths_to_clean, files, validation, returncode,
                   merge_was_successful, obs_vars_but_events>>

\* One iteration of the loop of lines 832-848.
WriteListEntry ==
    /\ pc = "write_list"
    /\ list_content' = Append(list_content, validation.valid_files_to_merge[loop_i + 1])
    /\ PutUnlessClosing(<<MergePrepProgress(loop_i + 1,
                                            Len(validation.valid_files_to_merge))>>)
    /\ loop_i' = loop_i + 1
    /\ pc' = IF loop_i + 1 = Len(validation.valid_files_to_merge)
             THEN "start_ffmpeg" ELSE "write_list"
    /\ UNCHANGED <<split_vars, gui_state, cfg_vars, task_pc, semaphore, results_data,
                   temp_file_paths_to_clean, files, validation, list_file,
                   returncode, merge_was_successful, obs_vars_but_events>>

\* Lines 849-879: the status message and subprocess.Popen, which starts ffmpeg
\* on the list file or raises (the executable cannot be started).
StartFfmpeg ==
    /\ pc = "start_ffmpeg"
    /\ PutUnlessClosing(<<StatusMsg("merging")>>)
    /\ \E started \in BOOLEAN :
          IF started
          THEN /\ ffmpeg_runs' = ffmpeg_runs + 1
               /\ ffmpeg_input' = list_content
               /\ pc' = "ffmpeg_running"
          ELSE /\ pc' = "merge_except"
               /\ UNCHANGED <<ffmpeg_runs, ffmpeg_input>>
    /\ UNCHANGED <<split_vars,
                   gui_state, cfg_vars, loop_i, task_pc, semaphore, results_data,
                   temp_file_paths_to_clean, files, merge_vars, tts_calls,
                   tts_outcome, task_skipped, cleanup_runs, exit_path,
                   returned_while_closing>>

\* Line 883: ffmpeg exits within the timeout, with code 0 or with an error code.
FfmpegExits ==
    /\ pc = "ffmpeg_running"
    /\ \E rc \in {0, 1} : returncode' = rc
    /\ pc' = "check_returncode"
    /\ NoPut
    /\ UNCHANGED <<split_vars,
                   gui_state, cfg_vars, loop_i, task_pc, semaphore, results_data,
                   temp_file_paths_to_clean, files, validation, list_file,
                   list_content, merge_was_successful, obs_vars_but_events>>

\* Lines 884-890: communicate times out; process.kill() ends ffmpeg, unless it
\* has just exited by itself, in which case kill() does nothing and returncode is
\* its exit code; the timeout error is put on the queue.
FfmpegTimesOut ==
    /\ pc = "ffmpeg_running"
    /\ \E rc \in {RC_KILLED, 0, 1} : returncode' = rc
    /\ PutUnlessClosing(<<ErrorEvent("merge_timeout", None)>>)
    /\ pc' = "check_returncode"
    /\ UNCHANGED <<split_vars,
                   gui_state, cfg_vars, loop_i, task_pc, semaphore, results_data,
                   temp_file_paths_to_clean, files, validation, list_file,
                   list_content, merge_was_successful, obs_vars_but_events>>

\* Mutant of RemoveListFile: the list file is left where it is.
KeepListFile(state) == state

\* The finally clause of lines 907-914: "if list_file_path and
\* os.path.exists(list_file_path): os.remove(list_file_path)".
RemoveListFile(state) == IF state = "exists" THEN "removed" ELSE state

\* Lines 892-902, then the finally clause of lines 907-914.
CheckReturncode ==
    /\ pc = "check_returncode"
    /\ IF returncode = 0
       THEN /\ merge_was_successful' = TRUE
            /\ PutUnlessClosing(<<SuccessEvent>>)
       ELSE /\ PutUnlessClosing(<<ErrorEvent("merge_failed", None)>>)
            /\ UNCHANGED merge_was_successful
    /\ list_file' = RemoveListFile(list_file)
    /\ pc' = "final_cleanup"
    /\ UNCHANGED <<split_vars,
                   gui_state, cfg_vars, loop_i, task_pc, semaphore, results_data,
                   temp_file_paths_to_clean, files, validation, list_content,
                   returncode, obs_vars_but_events>>

\* Lines 904-914: an exception while preparing or starting the merge.
MergeException ==
    /\ pc = "merge_except"
    /\ PutUnlessClosing(<<ErrorEvent("merge_exception", None)>>)
    /\ list_file' = RemoveListFile(list_file)
    /\ pc' = "final_cleanup"
    /\ UNCHANGED <<split_vars,
                   gui_state, cfg_vars, loop_i, task_pc, semaphore, results_data,
                   temp_file_paths_to_clean, files, validation, list_content,
                   returncode, merge_was_successful, obs_vars_but_events>>

\* Lines 923-924.
FinalCleanup ==
    /\ pc = "final_cleanup"
    /\ files' = CleanupTempFiles(temp_file_paths_to_clean, files)
    /\ cleanup_runs' = cleanup_runs + 1
    /\ pc' = "signal_reset"
    /\ NoPut
    /\ UNCHANGED <<split_vars,
                   gui_state, cfg_vars, loop_i, task_pc, semaphore, results_data,
                   temp_file_paths_to_clean, merge_vars, tts_calls, tts_outcome,
                   task_skipped, ffmpeg_runs, ffmpeg_input, exit_path,
                   returned_while_closing>>

\* Lines 929-930, after which the coroutine and the wrapper return.
SignalReset ==
    /\ pc = "signal_reset"
    /\ PutUnlessClosing(WithResetLast(<<>>))
    /\ pc' = "exited" /\ exit_path' = "end"
    /\ UNCHANGED <<split_vars,
                   gui_state, cfg_vars, loop_i, task_pc, semaphore, results_data,
                   temp_file_paths_to_clean, files, merge_vars, tts_calls,
                   tts_outcome, task_skipped, ffmpeg_runs, ffmpeg_input,
                   cleanup_runs,
                   returned_while_closing>>

\* run_conversion_wrapper, lines 675-683: an exception that escaped the pipeline.
WrapperExcept ==
    /\ pc = "wrapper_except"
    /\ PutUnlessClosing(WithResetLast(<<ErrorEvent("unexpected_async_error", None)>>))
    /\ pc' = "exited" /\ exit_path' = "exception"
    /\ UNCHANGED <<split_vars,
                   gui_state, cfg_vars, loop_i, task_pc, semaphore, results_data,
                   temp_file_paths_to_clean, files, merge_vars, tts_calls,
                   tts_outcome, task_skipped, ffmpeg_runs, ffmpeg_input,
                   cleanup_runs,
                   returned_while_closing>>

\* ------------------------------------------------------------ specification
\* The steps of the conversion thread.
ThreadNext ==
    \/ RunConversionWrapper
    \/ PipelineEntry
    \/ CreateTask
    \/ AfterCreateTasks
    \/ \E i \in Indices : TaskStart(i)
    \/ \E i \in Indices : TaskTempfileFailed(i)
    \/ \E i \in Indices : SemaphoreWake(i)
    \/ \E i \in Indices : TaskAfterAcquire(i)
    \/ \E i \in Indices : TtsSucceeds(i)
    \/ \E i \in Indices : TtsFails(i)
    \/ \E i \in Indices : TaskFinish(i)
    \/ GatherDone
    \/ ValidationRaises
    \/ DecideMerge
    \/ AnnounceMerge
    \/ CreateListFile
    \/ WriteListEntry
    \/ StartFfmpeg
    \/ FfmpegExits
    \/ FfmpegTimesOut
    \/ CheckReturncode
    \/ MergeException
    \/ FinalCleanup
    \/ SignalReset
    \/ WrapperExcept

Next ==
    \/ StartConversion
    \/ OnClose
    \/ ProcessQueue
    \/ ThreadNext

Spec == Init /\ [][Next]_vars

\* The pipeline run on any chunk list (blank chunks included).
NextAnyChunks ==
    \/ StartConversionAnyChunks
    \/ OnClose
    \/ ProcessQueue
    \/ ThreadNext

SpecAnyChunks == Init /\ [][NextAnyChunks]_vars

\* The scheduling the code relies on: the conversion thread keeps running (the
\* synthesis calls return, the merge tool exits or times out), and the GUI
\* timer keeps calling process_queue every QUEUE_CHECK_INTERVAL_MS.  Nothing
\* obliges the user to start a conversion or to close the window.
FairSpec == Spec /\ WF_vars(ThreadNext) /\ WF_vars(ProcessQueue)

\* ==================================================================== claims
InFlight == {i \in Indices : task_pc[i] = "in_call"}

TerminalEvents == {k \in DOMAIN run_events : run_events[k].type \in {"success", "error"}}

ProgressEvents == {k \in DOMAIN run_events : run_events[k].type = "progress_update"}

\* The coroutine is past "await asyncio.gather".
PastGather ==
    \/ pc \in {"validated", "winfo_exists", "create_list_file", "write_list",
               "start_ffmpeg", "ffmpeg_running", "check_returncode",
               "merge_except", "final_cleanup", "signal_reset", "wrapper_except"}
    \/ pc = "exited" /\ exit_path \in {"closing_after_gather", "end", "exception"}

\* The chunk index whose result slot holds path p.
IndexOfPath(p) == CHOOSE i \in Indices : results_data[i][2] = p

\* C1: at every moment the number of tasks inside the synthesis call is at most
\* the concurrency limit.
C1_ConcurrencyBound == Cardinality(InFlight) <= max_concurrent_tasks

\* The limit is reached while another task waits for a slot.
C1_Witness ==
    /\ Cardinality(InFlight) = max_concurrent_tasks
    /\ \E i \in Indices : task_pc[i] = "waiting"

\* C2: the manifest the merge tool is started with lists exactly the artifacts
\* stored in the result slots, in strictly ascending chunk-index order.
C2_ManifestAscending ==
    ffmpeg_runs > 0 =>
        /\ \A a, b \in DOMAIN ffmpeg_input :
              a < b => IndexOfPath(ffmpeg_input[a]) < IndexOfPath(ffmpeg_input[b])
        /\ Range(ffmpeg_input) =
              {results_data[i][2] : i \in {j \in Indices : results_data[j][2] # None}}

\* Chunk 1 finished before chunk 0 (its progress message, with its duration 2,
\* is the first one) and both artifacts were handed to the merge tool.
C2_Witness ==
    /\ ffmpeg_runs > 0
    /\ Len(ffmpeg_input) = 2
    /\ results_data[0][4] = 1 /\ results_data[1][4] = 2
    /\ run_events # <<>> /\ run_events[1] = ProgressUpdate(2)

\* C3 (as claimed): when the run has ended, by whichever path (success, chunk
\* failure, merge failure, timeout, or cancellation by the closing flag), no
\* temp file of the run exists.
C3_NoTempFilesAtEnd ==
    pc = "exited" => \A i \in Indices : files[i] = "absent"

\* C4 (as claimed): once a synthesis call has failed, the merge tool is never
\* started and no list file is written, and a run that ends uncancelled has
\* reported an error and no success.
C4_NoMergeAfterFailure ==
    (\E i \in Indices : tts_outcome[i] = "failed") =>
        /\ ffmpeg_runs = 0
        /\ list_file = "none"
        /\ (pc = "exited" /\ ~closing) =>
              /\ \E k \in TerminalEvents : run_events[k].type = "error"
              /\ \A k \in TerminalEvents : run_events[k].type # "success"

\* C5: a failed call cancels no task; past gather every task has finished; in a
\* run not cancelled no task was skipped; and no message other than the tasks'
\* own progress messages is sent before every task has finished.
C5_WaitsForAllTasks ==
    /\ (\E i \in Indices : tts_outcome[i] = "failed") =>
          \A j \in Indices : task_pc[j] # "cancelled"
    /\ PastGather => \A i \in Indices : task_pc[i] = "done"
    /\ (PastGather /\ ~closing) => \A i \in Indices : task_skipped[i] = "no"
    /\ (\E k \in DOMAIN run_events : run_events[k].type # "progress_update") =>
          \A i \in Indices : task_pc[i] = "done"

\* An uncancelled run has ended in which the first call to return failed and a
\* call that returned later succeeded.
C5_Witness ==
    /\ pc = "exited" /\ ~closing
    /\ \E i \in Indices : tts_outcome[i] = "failed"
    /\ \A i \in Indices : results_data[i][3] # "tempfile error"
    /\ run_events # <<>> /\ run_events[1] = ProgressUpdate(None)
    /\ \E k \in ProgressEvents : run_events[k].num > 0

\* C6 (as claimed): a success event is sent only in a run in which every chunk
\* is blank or has a successful call whose artifact is in the manifest, the
\* manifest is not empty and the merge tool exited with code 0.
C6_SuccessOnlyIfAllValid ==
    (\E k \in TerminalEvents : run_events[k].type = "success") =>
        /\ \A i \in Indices :
              \/ text_chunks[i] = "blank"
              \/ tts_outcome[i] = "succeeded" /\ TmpPath(i) \in Range(ffmpeg_input)
        /\ ffmpeg_input # <<>>
        /\ returncode = 0

\* C7 (as claimed): a run that has ended and was not cancelled has sent exactly
\* one terminal event.
C7_ExactlyOneTerminalEvent ==
    (pc = "exited" /\ ~closing) => Cardinality(TerminalEvents) = 1

\* C8: the synthesis call is made at most once per chunk index.
C8_AtMostOneCall == \A i \in Indices : tts_calls[i] <= 1

\* A run has ended in which a call failed, and that chunk was called once.
C8_Witness ==
    /\ pc = "exited"
    /\ \E i \in Indices : tts_outcome[i] = "failed" /\ tts_calls[i] = 1

\* C9 (as claimed): every task that skipped its call because of the closing
\* flag, at either check, has an error in its result slot.
C9_SkippedCarryCancelled ==
    \A i \in Indices :
        task_skipped[i] # "no" => Truthy(results_data[i][3])

\* C10: once closing is set no further synthesis call is started; a task inside
\* the call only leaves it by the call returning; and _cleanup_temp_files does
\* not run while a call is in flight.
C10_CooperativeCancel ==
    [][ /\ closing => tts_calls' = tts_calls
        /\ \A i \in Indices :
              task_pc[i] = "in_call" => task_pc'[i] \in {"in_call", "returned"}
        /\ cleanup_runs' # cleanup_runs => InFlight = {} ]_vars

\* A cancelled run has cleaned up after a call returned with closing set while
\* another task skipped its call.
C10_Witness ==
    /\ closing /\ cleanup_runs = 1
    /\ returned_while_closing # {}
    /\ \E j \in Indices : task_skipped[j] # "no"

\* ----------------------------------------------------------------------- C11
\* C11: a run whose merge ran into the timeout ends failed with the timeout
\* classification: every success/error event of the finished run is the
\* timeout error - no generic merge-failure error and no success.
\* The timeout error on run_events marks the run as timed out and not cancelled.
C11_TimeoutClassified ==
    (pc = "exited" /\ ErrorEvent("merge_timeout", None) \in Range(run_events))
        => \A k \in TerminalEvents : run_events[k] = ErrorEvent("merge_timeout", None)

\* ----------------------------------------------------------------------- C12
\* C12: when an exception escapes the pipeline after temp files were
\* registered and the run is not cancelled, every registered temp file is
\* removed, an error event is emitted and the reset is signalled.
C12_ExceptionCleansUp ==
    (pc = "exited" /\ exit_path = "exception" /\ ~closing
        /\ temp_file_paths_to_clean # <<>>)
        => /\ \A p \in Range(temp_file_paths_to_clean) :
                  files[ChunkOfPath(p)] = "absent"
           /\ ErrorEvent("unexpected_async_error", None) \in Range(run_events)
           /\ ResetUi \in Range(run_events)

\* ----------------------------------------------------------------------- C14
\* C14: a finished run that registered at least one temp file has executed
\* _cleanup_temp_files exactly once, whichever return it left through.
C14_CleanupExactlyOnce ==
    (pc = "exited" /\ temp_file_paths_to_clean # <<>>) => cleanup_runs = 1

\* ----------------------------------------------------------------------- C13
\* C13: under FairSpec (the conversion thread keeps running, the GUI timer
\* keeps calling process_queue) every started run that is not cancelled by
\* closing the window leads to the ready state again: is_converting, set by
\* start_conversion_thread, is eventually false, which only the handling of
\* the run's 'reset_ui' event brings about.
C13_EventuallyReady == is_converting ~> (~is_converting \/ closing)

\* A run that left through the wrapper's exception handler, uncancelled, and
\* whose reset has been handled.
C13_Witness ==
    /\ pc = "exited" /\ exit_path = "exception"
    /\ ~closing /\ ~is_converting
    /\ ResetUi \in Range(run_events)

\* ----------------------------------------------------------------------- C15
\* C15: when the worker of an empty or whitespace-only chunk is back from
\* text_to_speech_async, no synthesis call was made for the chunk and its
\* result slot is a success with zero duration, no error and no artifact path.
C15_BlankChunkNoArtifact ==
    \A i \in Indices :
        (text_chunks[i] = "blank" /\ task_pc[i] = "returned")
            => /\ tts_calls[i] = 0
               /\ results_data[i] = <<i, None, NoError, 0>>

\* ----------------------------------------------------------------------- C16
\* C16: an uncancelled run all of whose chunks are empty or whitespace-only,
\* each worker having returned its trivial success, ends with the 'no audio
\* generated' error as its only success/error event - not with a chunk error -
\* and without a start of the merge tool.
C16_AllTrivialNoAudio ==
    (/\ pc = "exited" /\ exit_path = "end" /\ ~closing
     /\ \A i \in Indices : text_chunks[i] = "blank" /\ results_data[i][3] = NoError)
        => /\ ffmpeg_runs = 0
           /\ TerminalEvents # {}
           /\ \A k \in TerminalEvents :
                  run_events[k] = ErrorEvent("no_audio_generated", None)

\* ----------------------------------------------------------------------- C17
\* C17: once every task of a run has finished, each result slot has an
\* artifact path and no error, or an error and no artifact path, or neither -
\* and neither only for an empty or whitespace-only chunk that succeeded
\* trivially with zero duration (no synthesis call, no skip).
C17_SlotShape ==
    (DOMAIN results_data = Indices /\ \A i \in Indices : task_pc[i] = "done")
        => \A i \in Indices :
               LET path == results_data[i][2]
                   error == results_data[i][3]
                   duration == results_data[i][4]
               IN  \/ path # None /\ error = NoError
                   \/ path = None /\ error # NoError
                   \/ /\ path = None /\ error = NoError
                      /\ text_chunks[i] = "blank" /\ duration = 0
                      /\ tts_calls[i] = 0 /\ task_skipped[i] = "no"

\* ----------------------------------------------------------------------- C18
\* C18 as stated: in an uncancelled run, with the failed event put and the
\* temp files still as validation saw them, a chunk whose call succeeded and
\* whose file is missing or empty is not in the manifest, the merge tool was
\* not started, and the error event of the run is a 'reported success but
\* file missing or empty' error.
C18_MissingFileErrorSurfaced ==
    (pc = "final_cleanup" /\ ~closing)
        => \A i \in Indices :
               (tts_outcome[i] = "succeeded" /\ files[i] # "data")
                   => /\ TmpPath(i) \notin Range(validation.valid_files_to_merge)
                      /\ ffmpeg_runs = 0
                      /\ \E k \in TerminalEvents :
                             run_events[k].kind = "file_missing_or_empty"

\* C18 amended: a chunk whose call succeeded and whose file is missing or
\* empty at validation is kept out of the manifest and fails the validation;
\* the first error is its missing-file error or the error of a chunk of lower
\* index; after a failed validation the merge tool is never started, and an
\* uncancelled run ends with exactly one success/error event, the first error.
C18_MissingFileIsFailure ==
    /\ pc = "validated"
           => \A i \in Indices :
                  (tts_outcome[i] = "succeeded" /\ files[i] # "data")
                      => /\ TmpPath(i) \notin Range(validation.valid_files_to_merge)
                         /\ ~validation.all_tts_chunks_succeeded
                         /\ validation.first_error # <<>>
                         /\ validation.first_error[2] <= i
                         /\ validation.first_error[2] = i
                                => validation.first_error[1] = "file_missing_or_empty"
    /\ ~validation.all_tts_chunks_succeeded => ffmpeg_runs = 0
    /\ (pc = "exited" /\ exit_path = "end" /\ ~closing
            /\ ~validation.all_tts_chunks_succeeded)
           => /\ Cardinality(TerminalEvents) = 1
              /\ \A k \in TerminalEvents :
                     run_events[k] = ErrorEvent(validation.first_error[1],
                                                validation.first_error[2])

\* The failed event of an uncancelled run is the missing-file error of a chunk
\* whose call succeeded and left an empty file.
C18_Witness ==
    /\ pc = "final_cleanup" /\ ~closing
    /\ \E i \in Indices :
          /\ tts_outcome[i] = "succeeded" /\ files[i] = "empty"
          /\ ErrorEvent("file_missing_or_empty", i) \in Range(run_events)

\* ----------------------------------------------------------------------- C19
\* The chunks of the run that failed, seen before the temp files are removed:
\* the slot holds an error (of the synthesis call or of the temp file
\* creation), or the call succeeded and the file is missing or empty.
FailedChunks ==
    {i \in DOMAIN results_data :
        \/ results_data[i][3] # NoError
        \/ results_data[i][2] # None /\ files[i] # "data"}

\* C19: when two or more chunks of an uncancelled run failed, the run's only
\* success/error event is a chunk error, and it is the error of the failed
\* chunk with the lowest index.
C19_LowestIndexErrorSurfaced ==
    (pc = "final_cleanup" /\ ~closing /\ Cardinality(FailedChunks) >= 2)
        => /\ Cardinality(TerminalEvents) = 1
           /\ \A k \in TerminalEvents :
                  /\ run_events[k].kind \in {"chunk_failed", "file_missing_or_empty"}
                  /\ \A i \in FailedChunks : run_events[k].num <= i

\* ----------------------------------------------------------------------- C20
\* The text has no blank-line paragraph break: no two newlines in a row.
NoParagraphBreak(text) ==
    \A k \in 1..(Len(text) - 1) : ~(text[k] = "\n" /\ text[k + 1] = "\n")

\* C20 as stated: for every text of at most max_length characters without a
\* paragraph break, split_text_simple returns exactly one chunk, the text with
\* its surrounding whitespace removed.
C20_ShortTextOneChunk ==
    (/\ split_pc = "done"
     /\ Len(split_input) <= split_max_length
     /\ NoParagraphBreak(split_input))
        => split_result = <<Strip(split_input)>>

\* C20 amended: the same for every such text that holds a character other than
\* whitespace; for an empty or whitespace-only text the result is the empty
\* list.
C20_ShortTextOneChunkOrNone ==
    (/\ split_pc = "done"
     /\ Len(split_input) <= split_max_length
     /\ NoParagraphBreak(split_input))
        => split_result = IF Strip(split_input) # <<>>
                          THEN <<Strip(split_input)>> ELSE <<>>

\* A text of exactly max_length characters with whitespace around it and a
\* sentence end inside came back as one trimmed chunk.
C20_Witness ==
    /\ split_pc = "done"
    /\ Len(split_input) = split_max_length
    /\ NoParagraphBreak(split_input)
    /\ split_input[1] = " "
    /\ \E k \in 2..(Len(split_input) - 1) :
           split_input[k] = "." /\ split_input[k + 1] = " "
    /\ Strip(split_input) # <<>>
    /\ split_result = <<Strip(split_input)>>

\* ---------------------------------------------------- C21..C25: segmentation
\* '\n\n'.join(chunks): the chunks with the paragraph separator between them.
RECURSIVE JoinParagraphs(_)
JoinParagraphs(chunks) ==
    IF chunks = <<>> THEN <<>>
    ELSE IF Len(chunks) = 1 THEN chunks[1]
    ELSE chunks[1] \o <<"\n", "\n">> \o JoinParagraphs(Tail(chunks))

\* The paragraphs of the text that go through the sentence loop.
LongParagraphs(text, max_length) ==
    {paragraph \in {Strip(piece) : piece \in Range(SplitParagraphs(text, <<>>))} :
        Len(paragraph) > max_length}

\* The values start takes in the while loop over the paragraph.
RECURSIVE Cursors(_, _, _)
Cursors(paragraph, start, max_length) ==
    IF start >= Len(paragraph) THEN {}
    ELSE {start} \cup Cursors(paragraph, CutEnd(paragraph, start, max_length),
                              max_length)

\* The valid sentence boundaries after the cursor inside the search window:
\* a '.', '?' or '!' followed by whitespace or the end of the paragraph and
\* not rejected by the abbreviation heuristic.
ValidBoundaries(paragraph, start, max_length) ==
    {k \in (start + 1)..(Min(start + max_length + BREAK_SEARCH_BUFFER,
                             Len(paragraph)) - 1) :
        /\ CharAt(paragraph, k) \in Range(Puncts)
        /\ IsSentenceEnd(paragraph, k)
        /\ ~LooksLikeAbbreviation(paragraph, k, start)}

\* C21: segmentation is idempotent - the chunks joined with the paragraph
\* separator and segmented again with the same max_length are the same chunks.
C21_Idempotent ==
    split_pc = "done"
        => split_text_simple(JoinParagraphs(split_result), split_max_length)
               = split_result

\* A text that was cut into several chunks, one of them longer than max_length.
C21_Witness ==
    /\ split_pc = "done"
    /\ Len(split_result) >= 2
    /\ \E k \in DOMAIN split_result : Len(split_result[k]) > split_max_length
    /\ JoinParagraphs(split_result) # split_input

\* C22: in a paragraph longer than max_length, whenever the search window of a
\* cursor holds a valid sentence boundary, the cut is just after the right-most
\* valid boundary of the window.
C22_CutAtRightmostValid ==
    split_pc = "done"
        => \A paragraph \in LongParagraphs(split_input, split_max_length) :
               \A start \in Cursors(paragraph, 0, split_max_length) :
                   LET valid == ValidBoundaries(paragraph, start, split_max_length)
                   IN  valid # {}
                           => \A k \in valid :
                                  k + 1 <= CutEnd(paragraph, start, split_max_length)

\* C23: in a paragraph longer than max_length, when the search window of a
\* cursor holds no valid sentence boundary and more than max_length characters
\* remain, the cut is exactly max_length characters after the cursor.
C23_CutAtMaxLength ==
    split_pc = "done"
        => \A paragraph \in LongParagraphs(split_input, split_max_length) :
               \A start \in Cursors(paragraph, 0, split_max_length) :
                   (/\ ValidBoundaries(paragraph, start, split_max_length) = {}
                    /\ Len(paragraph) - start > split_max_length)
                       => CutEnd(paragraph, start, split_max_length)
                              = start + split_max_length

\* A paragraph with a cursor after the first one where the cut fell at
\* max_length, the window holding a punct that is no valid boundary.
C23_Witness ==
    /\ split_pc = "done"
    /\ \E paragraph \in LongParagraphs(split_input, split_max_length) :
           \E start \in Cursors(paragraph, 0, split_max_length) :
               /\ start > 0
               /\ ValidBoundaries(paragraph, start, split_max_length) = {}
               /\ Len(paragraph) - start > split_max_length
               /\ \E k \in (start + 1)..(Len(paragraph) - 1) :
                      CharAt(paragraph, k) \in Range(Puncts)
               /\ CutEnd(paragraph, start, split_max_length)
                      = start + split_max_length

\* C24: the result is empty exactly for the empty and the whitespace-only text.
C24_EmptyIffBlank ==
    split_pc = "done"
        => (split_result = <<>> <=> \A k \in DOMAIN split_input :
                                        split_input[k] \in Whitespace)

\* A whitespace-only text with a paragraph separator in it gave no chunk.
C24_Witness ==
    /\ split_pc = "done"
    /\ Len(split_input) >= 3
    /\ \A k \in DOMAIN split_input : split_input[k] \in Whitespace
    /\ ~NoParagraphBreak(split_input)
    /\ split_result = <<>>

\* C25: every returned chunk is non-empty and neither starts nor ends with a
\* whitespace character.
C25_ChunksTrimmed ==
    split_pc = "done"
        => \A k \in DOMAIN split_result :
               LET chunk == split_result[k]
               IN  /\ chunk # <<>>
                   /\ chunk[1] \notin Whitespace
                   /\ chunk[Len(chunk)] \notin Whitespace

\* A chunk cut out of a long paragraph lost whitespace at its end: the text
\* has a space before the cut and the chunks hold no space at all.
C25_Witness ==
    /\ split_pc = "done"
    /\ Len(split_result) >= 2
    /\ NoParagraphBreak(split_input)
    /\ split_input[1] \notin Whitespace
    /\ split_input[Len(split_input)] \notin Whitespace
    /\ \E k \in DOMAIN split_input : split_input[k] = " "
    /\ \A k \in DOMAIN split_result : " " \notin Range(split_result[k])

\* ----------------------------------------------------------------------- C26
\* The message has been handled; every counted chunk has a kept duration, and
\* all of them are the same.
ConstantDurationShown ==
    /\ gui_queue = <<>>
    /\ completed_chunks >= 1
    /\ Len(chunk_times) = completed_chunks
    /\ \A k \in DOMAIN chunk_times : chunk_times[k] = chunk_times[1]

FinishedTasks == {i \in Indices : task_pc[i] = "done"}

\* The 'progress_update' messages waiting in the queue.
QueuedProgress == {k \in DOMAIN gui_queue : gui_queue[k].type = "progress_update"}

\* percentComplete as a fraction: 100 * min(completedCount, totalChunks) / totalChunks.
PercentIs(percent, completed, total) ==
    percent.num * total = 100 * Min(completed, total) * percent.den

C27_ProgressCounted ==
    /\ completed_chunks <= total_chunks
    /\ ~closing => Cardinality(ProgressEvents) = Cardinality(FinishedTasks)
    /\ (~closing /\ is_converting)
          => /\ completed_chunks + Cardinality(QueuedProgress)
                    = Cardinality(ProgressEvents)
             /\ PercentIs(progress_var, completed_chunks, total_chunks)
             /\ progress_var.num = 100 * progress_var.den
                    => /\ completed_chunks = total_chunks
                       /\ FinishedTasks = Indices

C27_ProgressNeverDecreases ==
    (is_converting /\ is_converting')
        => /\ completed_chunks' >= completed_chunks
           /\ progress_var'.num * progress_var.den
                  >= progress_var.num * progress_var'.den

\* C27: in a run that is not cancelled every finished chunk task, succeeded or
\* failed, has produced exactly one progress event; every event handled adds
\* one to completed_chunks, which never decreases during the run and never
\* exceeds total_chunks; the percentage is 100 * min(completed, total) / total,
\* never decreases during the run and is 100 only when all chunks are done.
C27_ProgressMonotonic ==
    []C27_ProgressCounted /\ [][C27_ProgressNeverDecreases]_vars

\* Both chunks of a run are counted, one call having failed: 100 percent.
C27_Witness ==
    /\ ~closing /\ is_converting
    /\ total_chunks = 2 /\ completed_chunks = 2
    /\ \E i \in Indices : tts_outcome[i] = "failed"
    /\ \E i \in Indices : tts_outcome[i] = "succeeded"
    /\ progress_var = [num |-> 200, den |-> 2]

\* ----------------------------------------------------------------------- C28
\* The tasks that have their temp file and are at or past the semaphore.
PastRegistration ==
    {i \in Indices : task_pc[i] \in {"waiting", "acquired", "in_call", "returned"}}

\* C28: a chunk task's temp path is on the cleanup list before the task waits
\* for or holds the semaphore and before text_to_speech_async is called; so
\* the path of every call in flight or finished, and of every temp file that
\* exists, is on the list.
C28_RegisteredBeforeCall ==
    \A i \in Indices :
        (\/ i \in PastRegistration
         \/ tts_calls[i] > 0
         \/ tts_outcome[i] # "none"
         \/ files[i] # "absent")
            => TmpPath(i) \in Range(temp_file_paths_to_clean)

\* One call is in flight while another task still waits for the semaphore.
C28_Witness ==
    /\ \E i \in Indices : task_pc[i] = "in_call" /\ files[i] = "empty"
    /\ \E j \in Indices : task_pc[j] = "waiting"
    /\ Len(temp_file_paths_to_clean) = 2

\* ----------------------------------------------------------------------- C29
\* The tasks inside "async with semaphore".
SlotHolders == {i \in Indices : task_pc[i] \in {"acquired", "in_call", "returned"}}

\* asyncio.Semaphore(MAX_CONCURRENT_TASKS) has been created in this run.
SemaphoreCreated ==
    \/ pc \in {"create_tasks", "tasks_created", "gather"}
    \/ PastGather
    \/ pc = "exited" /\ exit_path = "closing_after_create"

C29_SlotsBalanced ==
    SemaphoreCreated
        => /\ semaphore + Cardinality(SlotHolders) = max_concurrent_tasks
           /\ semaphore >= 0
           /\ SlotHolders = {} => semaphore = max_concurrent_tasks

\* C29: a task that leaves "async with semaphore" - after a successful call,
\* a failed call or the cancellation check after the acquire - gives its slot
\* back, so the free slots and the tasks inside always add up to the limit and
\* all slots are free when no task is inside; and, the calls returning, every
\* task that waits for a slot gets one and every created task finishes,
\* whether or not there are more chunks than slots.
C29_SlotsReleasedNoStarvation ==
    /\ []C29_SlotsBalanced
    /\ \A i \in 0..(MaxChunks - 1) :
          /\ (i \in Indices /\ task_pc[i] = "waiting")
                 ~> (i \in Indices /\ task_pc[i] = "acquired")
          /\ (i \in Indices /\ pc = "gather" /\ task_pc[i] # "done")
                 ~> (i \in Indices /\ task_pc[i] = "done")

\* More chunks than slots: the first task's call failed and the task has left
\* the guarded section; the second task is in its call with the slot.
C29_Witness ==
    /\ max_concurrent_tasks = 1 /\ NumChunks = 2
    /\ task_pc[0] = "done" /\ tts_outcome[0] = "failed"
    /\ task_pc[1] = "in_call"
    /\ semaphore = 0

\* ----------------------------------------------------------------------- C30
\* Every slot of results_data holds its own index in its first field.
IndexFieldsMatch == \A i \in DOMAIN results_data : results_data[i][1] = i

\* While the tasks run, a step that changes slot j is a step of task j and of
\* no other task.
WritesOwnSlotOnly ==
    (pc = "gather" /\ pc' = "gather")
        => \A j \in Indices :
               results_data'[j] # results_data[j]
                   => /\ task_pc'[j] # task_pc[j]
                      /\ \A k \in Indices \ {j} : task_pc'[k] = task_pc[k]

\* C30: the task of chunk index i writes slot i of results_data and no other
\* slot, so no slot is written by two tasks, and the index stored in slot i is
\* i, in whatever order the tasks run.
C30_DisjointSlots == []IndexFieldsMatch /\ [][WritesOwnSlotOnly]_vars

\* The second task has stored its result while the first is still in its call
\* and its slot is as initialised.
C30_Witness ==
    /\ pc = "gather" /\ NumChunks = 2
    /\ task_pc[0] = "in_call" /\ results_data[0] = <<0, None, NoError, None>>
    /\ task_pc[1] = "returned" /\ results_data[1][2] = TmpPath(1)

\* ----------------------------------------------------------------------- C31
\* Sequence s is the beginning of sequence t.
IsPrefix(s, t) == Len(s) <= Len(t) /\ SubSeq(t, 1, Len(s)) = s

\* The step creates the list of a run (line 697) or resets the record of the
\* previous run when the next one starts.
NewRegistry == pc = "entry" \/ (pc # "wrapper" /\ pc' = "wrapper")

TimedTasks ==
    {i \in FinishedTasks : results_data[i][4] # None /\ results_data[i][4] > 0}

\* The queued 'progress_update' messages whose duration process_queue keeps.
QueuedTimed ==
    {k \in QueuedProgress : gui_queue[k].num # None /\ gui_queue[k].num > 0}

\* C32: a chunk whose synthesis call failed has no duration in its slot; it is
\* counted in completed_chunks and adds nothing to chunk_times.  In every state
\* chunk_times holds only strictly positive durations and is no longer than
\* completed_chunks; in a run that is not cancelled the chunks counted or
\* queued are the finished tasks and the durations kept or queued are those of
\* the finished tasks with a positive duration.
C32_FailedChunkNoSample ==
    /\ \A k \in DOMAIN chunk_times : chunk_times[k] > 0
    /\ Len(chunk_times) <= completed_chunks
    /\ \A i \in DOMAIN results_data :
           tts_outcome[i] = "failed" => results_data[i][4] = None
    /\ (~closing /\ is_converting)
          => /\ completed_chunks + Cardinality(QueuedProgress)
                    = Cardinality(FinishedTasks)
             /\ Len(chunk_times) + Cardinality(QueuedTimed)
                    = Cardinality(TimedTasks)

\* Both chunks of a run are counted; the call of one failed and one duration
\* is kept.
C32_Witness ==
    /\ ~closing /\ is_converting
    /\ completed_chunks = 2 /\ Len(chunk_times) = 1
    /\ \E i \in Indices : tts_outcome[i] = "failed"

\* ----------------------------------------------------------------------- C33
\* The positions of the pipeline inside the try block of lines 827-903.
InMergeTry ==
    pc \in {"write_list", "start_ffmpeg", "ffmpeg_running", "check_returncode",
            "merge_except"}

\* C33: the list file written for ffmpeg exists only while the pipeline is
\* inside the merge's try block; when the pipeline has left it - ffmpeg having
\* exited with 0 or with an error, having timed out, or an exception having
\* been raised while the list was built or ffmpeg started - the file is
\* removed, so it is on disk neither at the final cleanup nor after the run.
C33_ListFileRemoved == list_file = "exists" => InMergeTry

\* The run has ended after ffmpeg timed out and was killed: the list file was
\* written and is removed.
C33_Witness ==
    /\ pc = "exited" /\ exit_path = "end"
    /\ returncode = RC_KILLED
    /\ list_content # <<>>
    /\ list_file = "removed"

\* ----------------------------------------------------------------------- C34
\* A conversion thread exists and has not returned.
ThreadActive == pc \notin {"idle", "exited"}

\* The step starts the conversion thread of a run (lines 660-664).
RunStarts == pc # "wrapper" /\ pc' = "wrapper"

\* No run is active unless is_converting is set.
C34_ActiveOnlyWhileConverting == ThreadActive => is_converting

C34_StartsFromResetState ==
    RunStarts
        => /\ ~is_converting /\ ~ThreadActive
           /\ is_converting'
           /\ completed_chunks' = 0
           /\ chunk_times' = <<>>
           /\ total_chunks' = Cardinality(DOMAIN text_chunks')
           /\ total_chunks' >= 1

\* C34: at most one conversion run is active at a time and each run starts
\* from a reset state: a conversion thread runs only while is_converting is
\* set, a run starts only when is_converting is false and no thread of an
\* earlier run is left, and when the thread is started completed_chunks is 0,
\* chunk_times is empty and total_chunks is the number of chunks of the run.
C34_OneRunResetBefore ==
    []C34_ActiveOnlyWhileConverting /\ [][C34_StartsFromResetState]_vars

\* A run of two chunks has just been started: the thread is at its first
\* statement and the counters are at zero.
C34_Witness ==
    /\ pc = "wrapper" /\ is_converting /\ ~closing
    /\ NumChunks = 2
    /\ completed_chunks = 0 /\ chunk_times = <<>>
    /\ total_chunks = NumChunks
    /\ gui_queue = <<>>

\* ----------------------------------------------------------------------- C35
\* Sequence s is the end of sequence t.
IsSuffix(s, t) ==
    Len(s) <= Len(t) /\ SubSeq(t, Len(t) - Len(s) + 1, Len(t)) = s

\* 'reset_ui' is nowhere in the run's messages but at their end.
ResetIsLast ==
    \A k \in DOMAIN run_events : run_events[k].type = "reset_ui" => k = Len(run_events)

\* While the window is open the queue holds messages of the current run only,
\* in the order they were put; once the run's reset is handled it holds none.
C35_QueueOfThisRun ==
    /\ ResetIsLast
    /\ ~closing => /\ IsSuffix(gui_queue, run_events)
                   /\ ~is_converting => gui_queue = <<>>

\* When a run starts the queue is empty.
C35_NothingLeftAtStart == RunStarts => gui_queue = <<>>

\* C35: 'reset_ui' is the last message a run puts on the queue: its progress,
\* merge-progress, success and error messages all come before it.  The queue
\* being first-in first-out, when the reset has been handled (which is what
\* allows the next run to start) no message of the run is left: the next run
\* starts with an empty queue and counts only its own chunks.
C35_ResetIsLastEvent ==
    []C35_QueueOfThisRun /\ [][C35_NothingLeftAtStart]_vars

\* A run that failed in the merge has ended: progress, the error, then the
\* reset as the last of its messages, all handled.
C35_Witness ==
    /\ ~closing /\ ~is_converting /\ pc = "exited"
    /\ gui_queue = <<>>
    /\ Cardinality(ProgressEvents) = 2
    /\ \E k \in DOMAIN run_events : run_events[k].type = "error"
    /\ run_events[Len(run_events)].type = "reset_ui"

\* ----------------------------------------------------------------------- C36
\* C36: split_text_simple returns for every text and every max_length >= 1:
\* in a paragraph longer than max_length, from whatever position the cursor is
\* at, the cut is at least one character further and not past the end of the
\* paragraph, so the loop is left after at most len(paragraph) iterations.
C36_CursorAdvances ==
    /\ split_max_length >= 1
    /\ \A paragraph \in LongParagraphs(split_input, split_max_length) :
           \A start \in 0..(Len(paragraph) - 1) :
               LET end == CutEnd(paragraph, start, split_max_length)
               IN  start < end /\ end <= Len(paragraph)
    /\ split_pc = "done"
           => \A paragraph \in LongParagraphs(split_input, split_max_length) :
                  Cardinality(Cursors(paragraph, 0, split_max_length))
                      <= Len(paragraph)

\* The call has returned for a paragraph cut one character at a time, with a
\* sentence mark in it: the loop ran once per character.
C36_Witness ==
    /\ split_pc = "done"
    /\ split_max_length = 1
    /\ \E paragraph \in LongParagraphs(split_input, split_max_length) :
           /\ Len(paragraph) = MaxTextLen
           /\ \E k \in DOMAIN paragraph : paragraph[k] \in Range(Puncts)
           /\ Cardinality(Cursors(paragraph, 0, split_max_length)) = Len(paragraph)

\* ----------------------------------------------------------------------- C37
\* C37: every chunk split_text_simple(text, max_length) returns is at most
\* max_length + 50 characters long.
C37_ChunkLengthBound ==
    split_pc = "done"
        => \A k \in DOMAIN split_result :
               Len(split_result[k]) <= split_max_length + BREAK_SEARCH_BUFFER

\* A sentence mark at the last position of the search window: the first chunk
\* is exactly max_length + 50 characters long and more chunks follow.
C37_Witness ==
    /\ split_pc = "done"
    /\ Len(split_result) >= 2
    /\ Len(split_result[1]) = split_max_length + BREAK_SEARCH_BUFFER
    /\ Len(split_input) > split_max_length + BREAK_SEARCH_BUFFER

\* ----------------------------------------------------------------------- C38
\* The characters of a text that are not whitespace, in order.
WithoutWhitespace(text) == SelectSeq(text, LAMBDA c : c \notin Whitespace)

\* ''.join(chunks)
RECURSIVE Concat(_)
Concat(chunks) ==
    IF chunks = <<>> THEN <<>> ELSE Head(chunks) \o Concat(Tail(chunks))

\* C38: segmentation keeps the content and its order: the returned chunks put
\* together, whitespace left out, are the input text with whitespace left out.
C38_ContentPreserved ==
    split_pc = "done"
        => WithoutWhitespace(Concat(split_result)) = WithoutWhitespace(split_input)

\* A text with whitespace in it was cut inside a long paragraph and at a
\* paragraph break: three chunks or more, the whitespace of the text left out.
C38_Witness ==
    /\ split_pc = "done"
    /\ Len(split_result) >= 3
    /\ ~NoParagraphBreak(split_input)
    /\ LongParagraphs(split_input, split_max_length) # {}
    /\ Len(Concat(split_result)) < Len(split_input)
    /\ Len(WithoutWhitespace(split_input)) >= 3

=============================================================================
